---- MODULE Spec2Model ----
(***************************************************************************)
(* Poseidon permutation, SAFE sponge and Fiat-Shamir transcript of the     *)
(* poseidon-transcript crate (src/poseidon/mod.rs, src/sponge.rs,          *)
(* src/transcript.rs).                                                     *)
(*                                                                         *)
(* Indices are 0-based as in the Rust source; a TLA+ sequence is indexed   *)
(* with index + 1.  The prime field is scaled down to a small prime field  *)
(* in which x -> x^5 is still a bijection; field elements are 0 .. P-1.    *)
(***************************************************************************)
EXTENDS Integers, Sequences, FiniteSets, TLC

VARIABLES
    obj,          \* which object the run drives: "sponge", "transcript", "poseidon", "replay"
    round_keys,   \* PoseidonConstants.round_keys
    io_pattern,   \* PoseidonSponge.io_pattern: NoPattern or a sequence of SpongeOp
    sponge,       \* PoseidonSponge with its Poseidon: state, pos, absorb_pos, squeeze_pos, io_count, panicked
    twin,         \* a second sponge, constructed with another domain separator, driven by the same calls
    seps,         \* history: the domain separators the sponge and its twin were constructed with
    calls,        \* history: the calls made so far, <<kind, length>>
    last          \* history: the last call, its arguments, its effects in order and its result

vars == <<obj, round_keys, io_pattern, sponge, twin, seps, calls, last>>

----------------------------------------------------------------------------
(* Bounds of the model *)

\* absorbed / hashed field elements are drawn from 1 .. MaxElem
MaxElem == 2
\* absorb takes 0 .. MaxLen elements, squeeze returns 0 .. MaxLen elements
MaxLen == 3
\* calls made on one object
MaxCalls == 3
\* operations of a declared IOPattern (replay), counts 0 .. MaxCount
MaxPatLen == 3
MaxCount == 2

----------------------------------------------------------------------------
(* The field (ff::PrimeField), scaled down *)

\* the field modulus
P == 7

F == 0 .. (P - 1)

FAdd(a, b) == (a + b) % P

FMul(a, b) == (a * b) % P

\* pow_vartime(&[5, 0, 0, 0])
Pow5(x) == FMul(FMul(FMul(x, x), FMul(x, x)), x)

----------------------------------------------------------------------------
(* k256_consts: the constant tables (not among the sources; a table of the  *)
(* shape the specification requires, over the scaled field)                 *)

NUM_FULL_ROUNDS == 4

NUM_PARTIAL_ROUNDS == 3

\* a 3 x 3 Cauchy matrix 1 / (x_i + y_j) over the field, x = 0,1,2, y = 1,2,3
MDS_MATRIX == << <<1, 4, 5>>, <<4, 5, 2>>, <<5, 2, 3>> >>

\* width of the permutation state
StateWidth == Len(MDS_MATRIX)

\* round keys one permutation needs
NumKeysNeeded == StateWidth * (NUM_FULL_ROUNDS + NUM_PARTIAL_ROUNDS)

\* the i-th (0-based) round constant of a table
RoundConstant(i) == (3 * i * i + i + 2) % P

\* a table of n round constants
Table(n) == [i \in 1 .. n |-> RoundConstant(i - 1)]

ROUND_CONSTANTS == Table(NumKeysNeeded)

\* PoseidonConstants::new takes any table: the lengths a table may have
KeyLens == {NumKeysNeeded - 1, NumKeysNeeded, 2 * NumKeysNeeded}

----------------------------------------------------------------------------
(* Poseidon: the permutation engine.  A Poseidon value is                   *)
(* [state, pos, panicked, rounds]: rounds logs, per round run, its kind,    *)
(* the cursor it started at, the key indices it read, the state after key   *)
(* addition, after the S-box and whether it completed.                      *)

RECURSIVE add_constants_from(_, _, _, _, _)
add_constants_from(state, pos, keys, i, read) ==
    IF i = Len(state)
    THEN [state |-> state, panicked |-> FALSE, read |-> read]
    ELSE IF i + pos >= Len(keys)
         THEN [state |-> state, panicked |-> TRUE, read |-> read]
         ELSE add_constants_from(
                  [state EXCEPT ![i + 1] = FAdd(@, keys[i + pos + 1])],
                  pos, keys, i + 1, Append(read, i + pos))

\* for i in 0..state.len(): state[i] += round_keys[i + pos]; an index out of
\* range aborts with the earlier elements already changed
add_constants(state, pos, keys) == add_constants_from(state, pos, keys, 0, <<>>)

RECURSIVE RowDot(_, _, _)
RowDot(val, state, j) ==
    IF j = 0 THEN 0 ELSE FAdd(RowDot(val, state, j - 1), FMul(val[j], state[j]))

\* result[r] = sum_j mds_matrix[r][j] * state[j]
matrix_mul(state) ==
    [r \in 1 .. Len(MDS_MATRIX) |-> RowDot(MDS_MATRIX[r], state, Len(state))]

\* the S-box layer of a full round: every element
SboxAll(state) == [i \in 1 .. Len(state) |-> Pow5(state[i])]

\* an S-box layer on the last element instead of element 0
SboxLast(state) == [state EXCEPT ![Len(state)] = Pow5(@)]

\* the S-box layer of a partial round: element 0 only
SboxFirst(state) == [state EXCEPT ![1] = Pow5(@)]

\* the S-box layer of a round of the given kind
Sbox(kind, state) == IF kind = "full" THEN SboxAll(state) ELSE SboxFirst(state)

\* the end of a round: the state after matrix_mul, pos += state.len()
RoundEnd(ps, kind, ac, sb, mm) ==
    [state |-> mm, pos |-> ps.pos + Len(mm), panicked |-> FALSE,
     rounds |-> Append(ps.rounds, [kind |-> kind, pos |-> ps.pos, keys |-> ac.read,
                                   added |-> ac.state, sboxed |-> sb, done |-> TRUE])]

\* a round after its key addition ac: abort, or S-box and matrix_mul
RoundAfterAdd(ps, kind, ac) ==
    IF ac.panicked
    THEN [ps EXCEPT !.state = ac.state, !.panicked = TRUE,
                    !.rounds = Append(@, [kind |-> kind, pos |-> ps.pos, keys |-> ac.read,
                                          added |-> ac.state, sboxed |-> ac.state,
                                          done |-> FALSE])]
    ELSE RoundEnd(ps, kind, ac, Sbox(kind, ac.state), matrix_mul(Sbox(kind, ac.state)))

\* one round of the given kind: add_constants, S-box, matrix_mul, pos += state.len()
Round(ps, keys, kind) == RoundAfterAdd(ps, kind, add_constants(ps.state, ps.pos, keys))

full_round(ps, keys) == Round(ps, keys, "full")

partial_round(ps, keys) == Round(ps, keys, "partial")

RECURSIVE Repeat(_, _)
Repeat(kind, n) == IF n = 0 THEN <<>> ELSE <<kind>> \o Repeat(kind, n - 1)

\* the rounds of one permute call, in order
RoundSchedule ==
    LET full_rounds_half == NUM_FULL_ROUNDS \div 2
    IN  Repeat("full", full_rounds_half) \o Repeat("partial", NUM_PARTIAL_ROUNDS)
            \o Repeat("full", full_rounds_half)

RECURSIVE RunRounds(_, _, _)
RunRounds(ps, keys, kinds) ==
    IF kinds = <<>> \/ ps.panicked
    THEN ps
    ELSE RunRounds(IF Head(kinds) = "full" THEN full_round(ps, keys)
                                           ELSE partial_round(ps, keys),
                   keys, Tail(kinds))

\* Poseidon::permute on a state and a cursor: the cursor is not reset here
PoseidonPermute(state, pos, keys) ==
    RunRounds([state |-> state, pos |-> pos, panicked |-> FALSE, rounds |-> <<>>],
              keys, RoundSchedule)

----------------------------------------------------------------------------
(* IOPattern and the domain-separation tag *)

\* A usize count is [hi, n] with value hi * 2^31 + n, 0 <= n < 2^31
AbsorbWide(hi, n) == [op |-> "Absorb", hi |-> hi, n |-> n]

SqueezeWide(hi, n) == [op |-> "Squeeze", hi |-> hi, n |-> n]

\* SpongeOp::Absorb(n), SpongeOp::Squeeze(n) with n < 2^31
Absorb_(n) == AbsorbWide(0, n)

Squeeze_(n) == SqueezeWide(0, n)

\* Option<IOPattern>
NoPattern == [some |-> FALSE, ops |-> <<>>]

SomePattern(ops) == [some |-> TRUE, ops |-> ops]

\* A u32 word is [hi, lo] with value hi * 2^31 + lo, 0 <= lo < 2^31
MaxLo == 2147483647

\* step 1 of compute_tag: (n + 0x80000000) as u32 for an absorb, n as u32 for
\* a squeeze: the cast keeps the low 32 bits
EncodeWord(io_i) ==
    IF io_i.op = "Absorb"
    THEN [hi |-> (io_i.hi + 1) % 2, lo |-> io_i.n]
    ELSE [hi |-> io_i.hi % 2, lo |-> io_i.n]

\* w + k on u32, 0 <= k < 2^31; over records a sum beyond 2^32 - 1 wraps and is flagged
AddWord(w, k) ==
    IF k <= MaxLo - w.lo
    THEN [hi |-> w.hi, lo |-> w.lo + k, overflow |-> FALSE]
    ELSE [hi |-> 1 - w.hi, lo |-> (w.lo - (MaxLo - k)) - 1, overflow |-> (w.hi = 1)]

\* io_word > 0x80000000
AboveHighBit(w) == w.hi = 1 /\ w.lo > 0

\* io_word < 0x80000000
BelowHighBit(w) == w.hi = 0

RECURSIVE AggregateFrom(_, _)
AggregateFrom(agg, io_words) ==
    IF io_words = <<>>
    THEN agg
    ELSE LET io_word == Head(io_words)
             i == Len(agg)
             next ==
                 IF Len(agg) = 0
                 THEN Append(agg, io_word)
                 ELSE IF AboveHighBit(agg[i]) /\ AboveHighBit(io_word)
                      THEN LET s == AddWord(agg[i], io_word.lo)
                           IN  [agg EXCEPT ![i] = [hi |-> s.hi, lo |-> s.lo]]
                      ELSE IF BelowHighBit(agg[i]) /\ BelowHighBit(io_word)
                           THEN LET s == AddWord(agg[i], io_word.lo)
                                IN  [agg EXCEPT ![i] = [hi |-> s.hi, lo |-> s.lo]]
                           ELSE Append(agg, io_word)
         IN  AggregateFrom(next, Tail(io_words))

\* step 2 of compute_tag
Aggregate(io_words) == AggregateFrom(<<>>, io_words)

\* whether a += of step 2 exceeds u32: an abort in a build with overflow
\* checks, a wrapped sum in a build without
RECURSIVE AggregateOverflowsFrom(_, _)
AggregateOverflowsFrom(agg, io_words) ==
    IF io_words = <<>>
    THEN FALSE
    ELSE LET io_word == Head(io_words)
             i == Len(agg)
             merges == /\ i > 0
                       /\ \/ AboveHighBit(agg[i]) /\ AboveHighBit(io_word)
                          \/ BelowHighBit(agg[i]) /\ BelowHighBit(io_word)
         IN  \/ merges /\ AddWord(agg[i], io_word.lo).overflow
             \/ AggregateOverflowsFrom(AggregateFrom(agg, <<io_word>>), Tail(io_words))

AggregateOverflows(io_words) == AggregateOverflowsFrom(<<>>, io_words)

\* u32::to_be_bytes
ToBeBytes(w) ==
    << w.hi * 128 + (w.lo \div 16777216), (w.lo \div 65536) % 256,
       (w.lo \div 256) % 256, w.lo % 256 >>

RECURSIVE Serialize(_)
Serialize(words) ==
    IF words = <<>> THEN <<>> ELSE ToBeBytes(Head(words)) \o Serialize(Tail(words))

RECURSIVE Sha3Fold(_, _)
Sha3Fold(h, bytes) ==
    IF bytes = <<>> THEN h ELSE Sha3Fold((h * 31 + Head(bytes) + 1) % 65521, Tail(bytes))

\* Sha3_256 (an external hash): a deterministic digest of the bytes, as two
\* halves, each half below the field modulus as 2^128 is below the real one
Sha3_256(bytes) ==
    LET h == Sha3Fold(4, bytes) IN << h % P, (h \div P) % P >>

\* F::from_repr of a big-endian pair of halves
FromRepr(repr) == (repr[1] * P + repr[2]) % P

\* the io_words of step 1
EncodeWords(pattern) ==
    IF pattern.some
    THEN [k \in 1 .. Len(pattern.ops) |-> EncodeWord(pattern.ops[k])]
    ELSE <<>>

compute_tag(domain_separator, pattern) ==
    LET io_words == EncodeWords(pattern)
        io_bytes == Serialize(Aggregate(io_words)) \o domain_separator
        result == Sha3_256(io_bytes)
    IN  FromRepr(<<0, result[1]>>)

----------------------------------------------------------------------------
(* PoseidonSponge.  A run value [sp, events, out] threads the sponge through *)
(* one call and logs, in order, every permutation, state write and state    *)
(* read of the call (its index and its value) and the elements returned.    *)

rate == 2

capacity == 1

\* PoseidonSponge::construct with the given constants table
construct(domain_separator, pattern) ==
    LET tag == compute_tag(domain_separator, pattern)
    IN  [state |-> <<tag, 0, 0>>, pos |-> 0,
         absorb_pos |-> 0, squeeze_pos |-> 0, io_count |-> 0, panicked |-> FALSE]

StartRun(sp) == [sp |-> sp, events |-> <<>>, out |-> <<>>]

\* the sponge after the permutation p: poseidon.pos = 0 unless it aborted
AfterPermute(r, p) ==
    [r EXCEPT !.sp.state = p.state,
              !.sp.pos = IF p.panicked THEN p.pos ELSE 0,
              !.sp.panicked = p.panicked,
              !.events = Append(@, [e |-> "permute", idx |-> 0 - 1, val |-> 0 - 1,
                                    rounds |-> p.rounds])]

\* PoseidonSponge::permute: poseidon.permute(); poseidon.pos = 0
SpongePermute(r, keys) == AfterPermute(r, PoseidonPermute(r.sp.state, r.sp.pos, keys))

\* the index at which absorb writes an element
AbsorbIndex(sp) == sp.absorb_pos

\* the index at which squeeze reads an element
SqueezeIndex(sp) == sp.squeeze_pos

\* self.absorb_pos = 0 after the permutation
ResetAbsorbPos(q) == IF q.sp.panicked THEN q ELSE [q EXCEPT !.sp.absorb_pos = 0]

\* the refill of absorb testing absorb_pos > rate
AbsorbRefillOffByOne(r, keys) ==
    IF r.sp.absorb_pos > rate THEN ResetAbsorbPos(SpongePermute(r, keys)) ELSE r

\* if self.absorb_pos == self.rate { self.permute(); self.absorb_pos = 0 }
AbsorbRefill(r, keys) ==
    IF r.sp.absorb_pos = rate THEN ResetAbsorbPos(SpongePermute(r, keys)) ELSE r

\* the write of absorb without self.absorb_pos += 1
AbsorbWriteNoAdvance(r, x_i) ==
    IF r.sp.panicked
    THEN r
    ELSE [r EXCEPT !.sp.state[AbsorbIndex(r.sp) + 1] = x_i,
                   !.events = Append(@, [e |-> "write", idx |-> AbsorbIndex(r.sp),
                                         val |-> x_i, rounds |-> <<>>])]

\* self.poseidon.state[self.absorb_pos] = *x_i; self.absorb_pos += 1
AbsorbWrite(r, x_i) ==
    IF r.sp.panicked
    THEN r
    ELSE IF AbsorbIndex(r.sp) >= Len(r.sp.state)
         THEN [r EXCEPT !.sp.panicked = TRUE]
         ELSE [r EXCEPT !.sp.state[AbsorbIndex(r.sp) + 1] = x_i,
                        !.sp.absorb_pos = @ + 1,
                        !.events = Append(@, [e |-> "write", idx |-> AbsorbIndex(r.sp),
                                              val |-> x_i, rounds |-> <<>>])]

RECURSIVE absorb_loop(_, _, _)
absorb_loop(r, keys, x) ==
    IF x = <<>> \/ r.sp.panicked
    THEN r
    ELSE absorb_loop(AbsorbWrite(AbsorbRefill(r, keys), Head(x)), keys, Tail(x))

\* after the loop: io_count += 1 only
AbsorbEpilogueNoForce(r) ==
    IF r.sp.panicked THEN r ELSE [r EXCEPT !.sp.io_count = @ + 1]

\* after the loop: io_count += 1; squeeze_pos = rate
AbsorbEpilogue(r) ==
    IF r.sp.panicked THEN r
    ELSE [r EXCEPT !.sp.io_count = @ + 1, !.sp.squeeze_pos = rate]

\* PoseidonSponge::absorb starting every call at the first slot of a block
absorb_from_block_start(sp, keys, x) ==
    IF Len(x) = 0
    THEN StartRun(sp)
    ELSE AbsorbEpilogue(absorb_loop(StartRun([sp EXCEPT !.absorb_pos = 0]), keys, x))

\* PoseidonSponge::absorb without the early return on empty input
absorb_no_guard(sp, keys, x) == AbsorbEpilogue(absorb_loop(StartRun(sp), keys, x))

\* PoseidonSponge::absorb
absorb(sp, keys, x) ==
    IF Len(x) = 0
    THEN StartRun(sp)
    ELSE AbsorbEpilogue(absorb_loop(StartRun(sp), keys, x))

\* self.squeeze_pos = 0; self.absorb_pos = 0 after the permutation
ResetBothPos(q) ==
    IF q.sp.panicked THEN q ELSE [q EXCEPT !.sp.squeeze_pos = 0, !.sp.absorb_pos = 0]

\* if self.squeeze_pos == self.rate { self.permute(); squeeze_pos = 0; absorb_pos = 0 }
SqueezeRefill(r, keys) ==
    IF r.sp.squeeze_pos = rate THEN ResetBothPos(SpongePermute(r, keys)) ELSE r

\* y.push(self.poseidon.state[self.squeeze_pos]); self.squeeze_pos += 1
SqueezeRead(r) ==
    IF r.sp.panicked
    THEN r
    ELSE IF SqueezeIndex(r.sp) >= Len(r.sp.state)
         THEN [r EXCEPT !.sp.panicked = TRUE]
         ELSE [r EXCEPT !.out = Append(@, r.sp.state[SqueezeIndex(r.sp) + 1]),
                        !.sp.squeeze_pos = @ + 1,
                        !.events = Append(@, [e |-> "read", idx |-> SqueezeIndex(r.sp),
                                              val |-> r.sp.state[SqueezeIndex(r.sp) + 1],
                                              rounds |-> <<>>])]

RECURSIVE squeeze_loop(_, _, _)
squeeze_loop(r, keys, n) ==
    IF n = 0 \/ r.sp.panicked
    THEN r
    ELSE squeeze_loop(SqueezeRead(SqueezeRefill(r, keys)), keys, n - 1)

\* after the loop: io_count += 1; y
SqueezeEpilogue(r, k) ==
    IF r.sp.panicked THEN [r EXCEPT !.out = <<>>] ELSE [r EXCEPT !.sp.io_count = @ + k]

\* PoseidonSponge::squeeze counting once per element returned
squeeze_count_per_element(sp, keys, length) ==
    IF length = 0
    THEN StartRun(sp)
    ELSE SqueezeEpilogue(squeeze_loop(StartRun(sp), keys, length), length)

\* PoseidonSponge::squeeze
squeeze(sp, keys, length) ==
    IF length = 0
    THEN StartRun(sp)
    ELSE SqueezeEpilogue(squeeze_loop(StartRun(sp), keys, length), 1)

\* PoseidonSponge::finish comparing with < instead of !=
finish_less_than(sp, pattern) ==
    IF ~pattern.some THEN "Ok"
    ELSE IF sp.io_count < Len(pattern.ops) THEN "Err" ELSE "Ok"

\* PoseidonSponge::finish
finish(sp, pattern) ==
    IF ~pattern.some THEN "Ok"
    ELSE IF sp.io_count # Len(pattern.ops) THEN "Err" ELSE "Ok"

----------------------------------------------------------------------------
(* The sponge driven through its public calls *)

Elems == 1 .. MaxElem

\* the element sequences a call may absorb
ElemSeqs == UNION {[1 .. n -> Elems] : n \in 0 .. MaxLen}

\* domain separators: b"test" as in tests::test_interactive_protocol, and others
DsTest == <<116, 101, 115, 116>>

OtherSeps == {<<116, 101, 115, 117>>, <<>>}

\* the pattern of tests::test_interactive_protocol
TestPattern == SomePattern(<<Absorb_(2), Squeeze_(1), Absorb_(1), Squeeze_(3)>>)

\* the patterns a sponge is constructed with
SpongePatterns ==
    {NoPattern, SomePattern(<<Absorb_(2), Squeeze_(1)>>),
     SomePattern(<<Absorb_(1), Absorb_(0), Squeeze_(2)>>)}

\* the record of a call: its arguments, its effects in order and its result
NoCall(op, sp, tw) ==
    [op |-> op, x |-> <<>>, n |-> 0, out |-> <<>>, events |-> <<>>, pre |-> sp,
     res |-> "", twin_pre |-> tw, twin_out |-> <<>>, bytes |-> <<>>, padded |-> <<>>]

InitWith(o, keys, pattern, ds, ds2) ==
    /\ obj = o
    /\ round_keys = keys
    /\ io_pattern = pattern
    /\ sponge = construct(ds, pattern)
    /\ twin = construct(ds2, pattern)
    /\ seps = <<ds, ds2>>
    /\ calls = <<>>
    /\ last = NoCall("construct", construct(ds, pattern), construct(ds2, pattern))

\* PoseidonSponge::construct(domain_separator, SpongeCurve::K256, io_pattern)
Init ==
    \E pattern \in SpongePatterns, ds2 \in OtherSeps :
        InitWith("sponge", ROUND_CONSTANTS, pattern, DsTest, ds2)

CanCall == ~sponge.panicked /\ Len(calls) < MaxCalls

\* sponge.absorb(x)
Absorb(x) ==
    /\ obj = "sponge"
    /\ CanCall
    /\ \E r \in {absorb(sponge, round_keys, x)}, t \in {absorb(twin, round_keys, x)} :
           /\ sponge' = r.sp
           /\ twin' = t.sp
           /\ last' = [NoCall("absorb", sponge, twin) EXCEPT
                           !.x = x, !.n = Len(x), !.events = r.events]
    /\ calls' = Append(calls, <<"absorb", Len(x)>>)
    /\ UNCHANGED <<obj, round_keys, io_pattern, seps>>

\* sponge.squeeze(length)
Squeeze(length) ==
    /\ obj = "sponge"
    /\ CanCall
    /\ \E r \in {squeeze(sponge, round_keys, length)},
          t \in {squeeze(twin, round_keys, length)} :
           /\ sponge' = r.sp
           /\ twin' = t.sp
           /\ last' = [NoCall("squeeze", sponge, twin) EXCEPT
                           !.n = length, !.out = r.out, !.events = r.events,
                           !.twin_out = t.out]
    /\ calls' = Append(calls, <<"squeeze", length>>)
    /\ UNCHANGED <<obj, round_keys, io_pattern, seps>>

\* sponge.finish()
Finish ==
    /\ obj = "sponge"
    /\ ~sponge.panicked
    /\ last.op # "finish"
    /\ last' = [NoCall("finish", sponge, twin) EXCEPT !.res = finish(sponge, io_pattern)]
    /\ UNCHANGED <<obj, round_keys, io_pattern, sponge, twin, seps, calls>>

Next ==
    \/ \E x \in ElemSeqs : Absorb(x)
    \/ \E length \in 0 .. MaxLen : Squeeze(length)
    \/ Finish

Spec == Init /\ [][Next]_vars

\* a sponge over a constants table of any length
InitConfig ==
    \E n \in KeyLens, pattern \in {NoPattern}, ds2 \in OtherSeps :
        InitWith("sponge", Table(n), pattern, DsTest, ds2)

SpecConfig == InitConfig /\ [][Next]_vars

----------------------------------------------------------------------------
(* tests::test_interactive_protocol: a declared pattern replayed, every      *)
(* operation with its declared size; the absorbed data are io = 1, 2, 3, ... *)

Ops == {Absorb_(n) : n \in 0 .. MaxCount} \cup {Squeeze_(n) : n \in 0 .. MaxCount}

ReplayPatterns ==
    {SomePattern(ops) : ops \in UNION {[1 .. k -> Ops] : k \in 1 .. MaxPatLen}}
        \cup {TestPattern}

\* elements absorbed by the calls made so far
RECURSIVE AbsorbedSoFar(_)
AbsorbedSoFar(cs) ==
    IF cs = <<>> THEN 0
    ELSE (IF Head(cs)[1] = "absorb" THEN Head(cs)[2] ELSE 0) + AbsorbedSoFar(Tail(cs))

\* io[io_position .. io_position + l]
IoSlice(io_position, l) == [j \in 1 .. l |-> (io_position + j) % P]

InitReplay ==
    \E pattern \in ReplayPatterns, ds2 \in OtherSeps :
        InitWith("replay", ROUND_CONSTANTS, pattern, DsTest, ds2)

ReplayAbsorb ==
    /\ obj = "replay"
    /\ ~sponge.panicked
    /\ Len(calls) < Len(io_pattern.ops)
    /\ io_pattern.ops[Len(calls) + 1].op = "Absorb"
    /\ LET l == io_pattern.ops[Len(calls) + 1].n
           x == IoSlice(AbsorbedSoFar(calls), l)
       IN  \E r \in {absorb(sponge, round_keys, x)}, t \in {absorb(twin, round_keys, x)} :
               /\ sponge' = r.sp
               /\ twin' = t.sp
               /\ last' = [NoCall("absorb", sponge, twin) EXCEPT
                               !.x = x, !.n = l, !.events = r.events]
               /\ calls' = Append(calls, <<"absorb", l>>)
    /\ UNCHANGED <<obj, round_keys, io_pattern, seps>>

ReplaySqueeze ==
    /\ obj = "replay"
    /\ ~sponge.panicked
    /\ Len(calls) < Len(io_pattern.ops)
    /\ io_pattern.ops[Len(calls) + 1].op = "Squeeze"
    /\ LET l == io_pattern.ops[Len(calls) + 1].n
       IN  \E r \in {squeeze(sponge, round_keys, l)}, t \in {squeeze(twin, round_keys, l)} :
               /\ sponge' = r.sp
               /\ twin' = t.sp
               /\ last' = [NoCall("squeeze", sponge, twin) EXCEPT
                               !.n = l, !.out = r.out, !.events = r.events,
                               !.twin_out = t.out]
               /\ calls' = Append(calls, <<"squeeze", l>>)
    /\ UNCHANGED <<obj, round_keys, io_pattern, seps>>

\* assert_eq!(sponge.finish(), Ok(())) after the loop
ReplayFinish ==
    /\ obj = "replay"
    /\ ~sponge.panicked
    /\ Len(calls) = Len(io_pattern.ops)
    /\ last.op # "finish"
    /\ last' = [NoCall("finish", sponge, twin) EXCEPT !.res = finish(sponge, io_pattern)]
    /\ UNCHANGED <<obj, round_keys, io_pattern, sponge, twin, seps, calls>>

NextReplay == ReplayAbsorb \/ ReplaySqueeze \/ ReplayFinish

SpecReplay == InitReplay /\ [][NextReplay]_vars

----------------------------------------------------------------------------
(* Poseidon used directly: Poseidon::new and Poseidon::hash *)

\* Poseidon::new(constants): state = vec![F::zero(); 3], pos = 0
PoseidonNew ==
    [state |-> <<0, 0, 0>>, pos |-> 0,
     absorb_pos |-> 0, squeeze_pos |-> 0, io_count |-> 0, panicked |-> FALSE]

\* the inputs hashed
HashInputs == [1 .. 2 -> 0 .. MaxElem]

\* PoseidonConstants::new(round_constants, ..) with a table of any length
InitHash ==
    \E n \in KeyLens :
        /\ obj = "poseidon"
        /\ round_keys = Table(n)
        /\ io_pattern = NoPattern
        /\ sponge = PoseidonNew
        /\ twin = PoseidonNew
        /\ seps = <<DsTest, DsTest>>
        /\ calls = <<>>
        /\ last = NoCall("construct", PoseidonNew, PoseidonNew)

\* the domain tag of Poseidon::hash: 2^arity - 1
DomainTag == 3

\* the instance and the digest after the permutation p of hash: state[1]
AfterHash(ps, p) ==
    [sp |-> [ps EXCEPT !.state = p.state, !.pos = p.pos, !.panicked = p.panicked],
     events |-> <<[e |-> "permute", idx |-> 0 - 1, val |-> 0 - 1, rounds |-> p.rounds]>>,
     out |-> IF p.panicked THEN <<>> ELSE <<p.state[2]>>]

\* Poseidon::hash: state = [3] ++ input; permute(); state[1]
hash(ps, keys, input) ==
    AfterHash(ps, PoseidonPermute(<<DomainTag % P>> \o input, ps.pos, keys))

Hash(input) ==
    /\ obj = "poseidon"
    /\ CanCall
    /\ \E r \in {hash(sponge, round_keys, input)} :
           /\ sponge' = r.sp
           /\ last' = [NoCall("hash", sponge, twin) EXCEPT
                           !.x = input, !.n = Len(input), !.out = r.out,
                           !.events = r.events]
    /\ calls' = Append(calls, <<"hash", Len(input)>>)
    /\ UNCHANGED <<obj, round_keys, io_pattern, twin, seps>>

NextHash == \E input \in HashInputs : Hash(input)

SpecHash == InitHash /\ [][NextHash]_vars

----------------------------------------------------------------------------
(* PoseidonTranscript: a sponge without a declared pattern, fed bytes,       *)
(* points and scalars                                                        *)

\* the width of the padded buffer of append_bytes
WideLen == 64

\* the width of a field element's byte representation
ReprLen == 32

Zeros(n) == [i \in 1 .. n |-> 0]

\* padded_bytes.extend_from_slice(bytes); padded_bytes.resize(64, 0)
PadWide(bytes) ==
    IF Len(bytes) >= WideLen
    THEN SubSeq(bytes, 1, WideLen)
    ELSE bytes \o Zeros(WideLen - Len(bytes))

\* 256^n in the field
RECURSIVE Pow256(_)
Pow256(n) ==
    IF n = 0 THEN 1
    ELSE LET h == Pow256(n \div 2)
         IN  (((h * h) % P) * (IF n % 2 = 1 THEN 256 % P ELSE 1)) % P

\* the little-endian integer of buf[lo .. hi], reduced
RECURSIVE LeValue(_, _, _)
LeValue(buf, lo, hi) ==
    IF lo > hi THEN 0
    ELSE IF lo = hi THEN buf[lo] % P
    ELSE LET mid == (lo + hi) \div 2
         IN  (LeValue(buf, lo, mid) + Pow256(mid - lo + 1) * LeValue(buf, mid + 1, hi)) % P

\* from_bytes_wide: the little-endian integer of the buffer, reduced
from_bytes_wide(buf) == LeValue(buf, 1, Len(buf))

\* to_repr: the little-endian bytes of a field element
to_repr(fe) == <<fe % 256>> \o Zeros(ReprLen - 1)

\* a guard that lets one byte too many through
BytesAcceptedOffByOne(bytes) == Len(bytes) <= WideLen + 1

\* the guard of append_bytes: assert!(bytes.len() <= 64)
BytesAccepted(bytes) == Len(bytes) <= WideLen

\* the run r continued by the run a of the absorb
Continue(r, a) == [sp |-> a.sp, events |-> r.events \o a.events, out |-> <<>>]

\* PoseidonTranscript::append_bytes on a run
append_bytes(r, keys, bytes) ==
    IF ~BytesAccepted(bytes)
    THEN [r EXCEPT !.sp.panicked = TRUE]
    ELSE Continue(r, absorb(r.sp, keys, <<from_bytes_wide(PadWide(bytes))>>))

\* self.append_bytes(&y) after self.append_bytes(&x)
AppendSecond(rx, keys, y) ==
    IF rx.sp.panicked THEN rx ELSE append_bytes(rx, keys, to_repr(y))

\* append_point feeding the y-coordinate before the x-coordinate
append_point_swapped(r, keys, point) ==
    IF point.inf
    THEN [r EXCEPT !.sp.panicked = TRUE]
    ELSE AppendSecond(append_bytes(r, keys, to_repr(point.y)), keys, point.x)

\* PoseidonTranscript::append_point on a run; a point is [inf, x, y]
append_point(r, keys, point) ==
    IF point.inf
    THEN [r EXCEPT !.sp.panicked = TRUE]
    ELSE AppendSecond(append_bytes(r, keys, to_repr(point.x)), keys, point.y)

\* the byte strings appended: lengths around the guard, two fillings
ByteLens == {0, 1, 2, WideLen, WideLen + 1}

ByteInputs == {[i \in 1 .. n |-> (b + i) % 256] : n \in ByteLens, b \in Elems}

\* the points appended: the identity and affine points
Points ==
    {[inf |-> TRUE, x |-> 0, y |-> 0]}
        \cup {[inf |-> FALSE, x |-> a, y |-> b] : a \in Elems, b \in Elems}

\* PoseidonTranscript::new(domain_separator, SpongeCurve::K256)
InitTranscript ==
    \E ds2 \in OtherSeps : InitWith("transcript", ROUND_CONSTANTS, NoPattern, DsTest, ds2)

AppendBytes(bytes) ==
    /\ obj = "transcript"
    /\ CanCall
    /\ \E r \in {append_bytes(StartRun(sponge), round_keys, bytes)},
          t \in {append_bytes(StartRun(twin), round_keys, bytes)} :
           /\ sponge' = r.sp
           /\ twin' = t.sp
           /\ last' = [NoCall("append_bytes", sponge, twin) EXCEPT
                           !.bytes = bytes, !.n = Len(bytes), !.events = r.events,
                           !.padded = IF BytesAccepted(bytes) THEN PadWide(bytes) ELSE <<>>,
                           !.x = IF BytesAccepted(bytes)
                                 THEN <<from_bytes_wide(PadWide(bytes))>> ELSE <<>>]
    /\ calls' = Append(calls, <<"append_bytes", Len(bytes)>>)
    /\ UNCHANGED <<obj, round_keys, io_pattern, seps>>

AppendPoint(point) ==
    /\ obj = "transcript"
    /\ CanCall
    /\ \E r \in {append_point(StartRun(sponge), round_keys, point)},
          t \in {append_point(StartRun(twin), round_keys, point)} :
           /\ sponge' = r.sp
           /\ twin' = t.sp
           /\ last' = [NoCall("append_point", sponge, twin) EXCEPT
                           !.n = 2, !.events = r.events,
                           !.x = IF point.inf THEN <<>> ELSE <<point.x, point.y>>]
    /\ calls' = Append(calls, <<"append_point", 2>>)
    /\ UNCHANGED <<obj, round_keys, io_pattern, seps>>

AppendScalar(fe) ==
    /\ obj = "transcript"
    /\ CanCall
    /\ \E r \in {absorb(sponge, round_keys, <<fe>>)},
          t \in {absorb(twin, round_keys, <<fe>>)} :
           /\ sponge' = r.sp
           /\ twin' = t.sp
           /\ last' = [NoCall("append_scalar", sponge, twin) EXCEPT
                           !.x = <<fe>>, !.n = 1, !.events = r.events]
    /\ calls' = Append(calls, <<"append_scalar", 1>>)
    /\ UNCHANGED <<obj, round_keys, io_pattern, seps>>

TranscriptSqueeze(length) ==
    /\ obj = "transcript"
    /\ CanCall
    /\ \E r \in {squeeze(sponge, round_keys, length)},
          t \in {squeeze(twin, round_keys, length)} :
           /\ sponge' = r.sp
           /\ twin' = t.sp
           /\ last' = [NoCall("squeeze", sponge, twin) EXCEPT
                           !.n = length, !.out = r.out, !.events = r.events,
                           !.twin_out = t.out]
    /\ calls' = Append(calls, <<"squeeze", length>>)
    /\ UNCHANGED <<obj, round_keys, io_pattern, seps>>

NextTranscript ==
    \/ \E bytes \in ByteInputs : AppendBytes(bytes)
    \/ \E point \in Points : AppendPoint(point)
    \/ \E fe \in Elems : AppendScalar(fe)
    \/ \E length \in 0 .. MaxLen : TranscriptSqueeze(length)

SpecTranscript == InitTranscript /\ [][NextTranscript]_vars

----------------------------------------------------------------------------
(* compute_tag on declared patterns: counts around 0 and around 2^31, in a   *)
(* build with overflow checks (a u32 sum out of range aborts) and in one     *)
(* without (it wraps)                                                        *)

\* the counts of the operations: 0 .. MaxCount, 2^31 - 1, 2^31, 2^31 + 1
TagCounts == {<<0, n>> : n \in 0 .. MaxCount} \cup {<<0, MaxLo>>, <<1, 0>>, <<1, 1>>}

TagOps ==
    {AbsorbWide(c[1], c[2]) : c \in TagCounts} \cup {SqueezeWide(c[1], c[2]) : c \in TagCounts}

TagPatterns == {SomePattern(ops) : ops \in UNION {[1 .. k -> TagOps] : k \in 1 .. MaxPatLen}}

\* a pattern declared, the sponge not constructed yet
InitTag ==
    \E pattern \in TagPatterns :
        /\ obj = "tag"
        /\ round_keys = ROUND_CONSTANTS
        /\ io_pattern = pattern
        /\ sponge = PoseidonNew
        /\ twin = PoseidonNew
        /\ seps = <<DsTest, DsTest>>
        /\ calls = <<>>
        /\ last = NoCall("declare", PoseidonNew, PoseidonNew)

\* let tag = Self::compute_tag(domain_separator, &io_pattern) in construct
ComputeTag(overflow_checks) ==
    /\ obj = "tag"
    /\ calls = <<>>
    /\ \E io_words \in {EncodeWords(io_pattern)} :
           IF overflow_checks /\ AggregateOverflows(io_words)
           THEN /\ sponge' = [sponge EXCEPT !.panicked = TRUE]
                /\ last' = [NoCall("compute_tag", sponge, twin) EXCEPT
                                !.x = io_words, !.res = "abort"]
           ELSE /\ sponge' = construct(seps[1], io_pattern)
                /\ last' = [NoCall("compute_tag", sponge, twin) EXCEPT
                                !.x = io_words, !.out = Aggregate(io_words),
                                !.bytes = Serialize(Aggregate(io_words)) \o seps[1],
                                !.res = IF AggregateOverflows(io_words)
                                        THEN "wrapped" ELSE "tag"]
    /\ calls' = <<<<"compute_tag", Len(io_pattern.ops)>>>>
    /\ UNCHANGED <<obj, round_keys, io_pattern, twin, seps>>

NextTag == \E overflow_checks \in BOOLEAN : ComputeTag(overflow_checks)

SpecTag == InitTag /\ [][NextTag]_vars

----------------------------------------------------------------------------
(* Properties *)

\* the rate portion of the state: slots rate_offset .. rate_offset + rate - 1,
\* rate_offset = capacity
RateSlots == capacity .. (capacity + rate - 1)

EventsOf(kind) == {k \in 1 .. Len(last.events) : last.events[k].e = kind}

\* the calls that count as operations: a non-empty absorb, a squeeze of length > 0
RECURSIVE Effective(_)
Effective(cs) ==
    IF cs = <<>> THEN 0
    ELSE (IF Head(cs)[2] > 0 THEN 1 ELSE 0) + Effective(Tail(cs))

\* the kind of the last call among cs[1 .. k] that was not a no-op, "" if none
RECURSIVE LastEffectiveKind(_, _)
LastEffectiveKind(cs, k) ==
    IF k = 0 THEN ""
    ELSE IF cs[k][2] > 0 THEN cs[k][1] ELSE LastEffectiveKind(cs, k - 1)

\* the tags the sponge and its twin were constructed with
TagOf(k) == compute_tag(seps[k], io_pattern)

\* C1: absorb writes each element only into the rate portion (slots 1 .. rate),
\* never into capacity slot 0, and without a permutation slot 0 keeps its value
\* through absorb and squeeze
C1_AbsorbWritesRateOnly ==
    /\ last.op = "absorb" =>
           \A k \in EventsOf("write") : last.events[k].idx \in RateSlots
    /\ (last.op \in {"absorb", "squeeze"} /\ EventsOf("permute") = {}) =>
           sponge.state[1] = last.pre.state[1]

\* C2: two sponges with the same pattern and different tags differ at
\* construction, and after the same absorbs a squeeze(n > 0) returns different
\* outputs
C2_TagSensitivity ==
    TagOf(1) # TagOf(2) =>
        /\ last.op = "construct" => sponge.state # twin.state
        /\ (/\ last.op = "squeeze"
            /\ last.n > 0
            /\ \A k \in 1 .. Len(calls) - 1 : calls[k][1] = "absorb") =>
               last.out # last.twin_out

\* C3: after a non-empty absorb, the next squeeze(n > 0) runs a permutation
\* before it reads its first output element, whatever squeeze_pos was before
\* the absorb
C3_SqueezeAfterAbsorbPermutesFirst ==
    (/\ last.op = "squeeze"
     /\ last.n > 0
     /\ LastEffectiveKind(calls, Len(calls) - 1) = "absorb") =>
        /\ Len(last.events) > 0
        /\ last.events[1].e = "permute"
        /\ Len(last.out) = last.n
        /\ \A k \in EventsOf("read") : \E j \in EventsOf("permute") : j < k

\* a squeeze that left squeeze_pos < rate, then an absorb, then a squeeze
C3_Witness ==
    /\ Len(calls) = 3
    /\ calls[1] = <<"squeeze", 1>>
    /\ calls[2][1] = "absorb" /\ calls[2][2] > 0
    /\ last.op = "squeeze" /\ last.n > 0
    /\ last.events[1].e = "permute"

\* C4: a declared pattern (counts >= 0) replayed operation by operation, each
\* with its declared size, ends with finish returning Ok
C4_ReplayFinishOk ==
    (obj = "replay" /\ last.op = "finish") => last.res = "Ok"

\* C4 as amended: a declared pattern whose counts are all >= 1, replayed
\* operation by operation with the declared sizes, ends with finish returning Ok
C4_ReplayFinishOkPositive ==
    (/\ obj = "replay"
     /\ last.op = "finish"
     /\ \A k \in 1 .. Len(io_pattern.ops) : io_pattern.ops[k].n >= 1) =>
        last.res = "Ok"

\* the pattern of the test, replayed and finished
C4_Witness ==
    /\ obj = "replay"
    /\ io_pattern = TestPattern
    /\ calls = <<<<"absorb", 2>>, <<"squeeze", 1>>, <<"absorb", 1>>, <<"squeeze", 3>>>>
    /\ last.op = "finish"
    /\ last.res = "Ok"

\* C5: io_count is the number of non-empty absorbs plus the number of squeezes
\* of length > 0 made so far; finish is an error value exactly when a pattern
\* was declared and that number differs from the pattern's length, and Ok when
\* no pattern was declared
C5_FinishCountCheck ==
    /\ sponge.io_count = Effective(calls)
    /\ finish(sponge, io_pattern) \in {"Ok", "Err"}
    /\ finish(sponge, io_pattern) = "Err" <=>
           (io_pattern.some /\ Effective(calls) # Len(io_pattern.ops))
    /\ last.op = "finish" =>
           /\ last.res = finish(sponge, io_pattern)
           /\ ~sponge.panicked
           /\ sponge = last.pre

\* one operation more than declared, a no-op call among the calls: finish is Err
C5_Witness ==
    /\ io_pattern.some
    /\ last.op = "finish"
    /\ last.res = "Err"
    /\ sponge.io_count = Len(io_pattern.ops) + 1
    /\ Len(calls) = 3

\* C6: absorb(&[]) and squeeze(0) leave the state, absorb_pos, squeeze_pos,
\* io_count and the round-key cursor as they were, run no permutation, and
\* squeeze(0) returns the empty sequence
C6_BoundaryNoOps ==
    (\/ last.op = "absorb" /\ Len(last.x) = 0
     \/ last.op = "squeeze" /\ last.n = 0) =>
        /\ sponge = last.pre
        /\ last.events = <<>>
        /\ last.out = <<>>

\* absorb(&[]) on a sponge that holds absorbed data
C6_Witness ==
    /\ last.op = "absorb"
    /\ Len(last.x) = 0
    /\ last.pre.absorb_pos > 0
    /\ last.pre.io_count > 0
    /\ sponge = last.pre

\* C7: squeeze reads every returned element from the rate portion of the state
\* (slots 1 .. rate); capacity slot 0 is never returned
C7_SqueezeReadsRateOnly ==
    last.op = "squeeze" =>
        \A k \in EventsOf("read") : last.events[k].idx \in RateSlots

\* the permutations of the last call
PermuteEvents == {last.events[k] : k \in EventsOf("permute")}

\* C8: with a table of at least state_width * (full_rounds + partial_rounds)
\* keys, every permutation call runs full_rounds + partial_rounds rounds, and
\* its r-th round adds the keys [pos, pos + state_width) with
\* pos = state_width * r
C8_RoundKeysSequential ==
    Len(round_keys) >= NumKeysNeeded =>
        \A ev \in PermuteEvents :
            /\ Len(ev.rounds) = NUM_FULL_ROUNDS + NUM_PARTIAL_ROUNDS
            /\ \A r \in 0 .. Len(ev.rounds) - 1 :
                   /\ ev.rounds[r + 1].done
                   /\ ev.rounds[r + 1].pos = StateWidth * r
                   /\ ev.rounds[r + 1].keys =
                          [i \in 1 .. StateWidth |-> StateWidth * r + i - 1]

\* C9: on a constructed sponge no absorb or squeeze call aborts: a table that
\* is too short was rejected at construction
C9_NoAbortInsideCalls ==
    last.op \in {"absorb", "squeeze"} => ~sponge.panicked

\* C10: append_bytes with more than 64 bytes aborts with nothing absorbed and
\* the sponge as it was; with at most 64 bytes it pads the bytes with zeros to
\* exactly 64 and makes one absorb of one element
C10_AppendBytesGuard ==
    last.op = "append_bytes" =>
        IF Len(last.bytes) > WideLen
        THEN /\ sponge.panicked
             /\ [sponge EXCEPT !.panicked = FALSE] = last.pre
             /\ last.events = <<>>
        ELSE /\ ~sponge.panicked
             /\ Len(last.padded) = WideLen
             /\ \A i \in 1 .. WideLen :
                    last.padded[i] = IF i <= Len(last.bytes) THEN last.bytes[i] ELSE 0
             /\ Cardinality(EventsOf("write")) = 1
             /\ sponge.io_count = last.pre.io_count + 1
             /\ sponge.squeeze_pos = rate

\* both sides of the guard: 65 bytes refused on a sponge that holds data
C10_Witness ==
    /\ last.op = "append_bytes"
    /\ Len(last.bytes) = WideLen + 1
    /\ sponge.panicked
    /\ calls[1] = <<"append_bytes", WideLen>>
    /\ last.pre.io_count = 2

\* the values written into the state by the last call, in order
WriteVals ==
    LET ws == SelectSeq(last.events, LAMBDA ev : ev.e = "write")
    IN  [k \in 1 .. Len(ws) |-> ws[k].val]

\* the point of the last append_point call
LastPoint == [inf |-> FALSE, x |-> last.x[1], y |-> last.x[2]]

\* the run of appending the same point once more
AppendedAgain == append_point(StartRun(sponge), round_keys, LastPoint)

\* the positions of the permutations among the events evs
PermutesIn(evs) == {k \in 1 .. Len(evs) : evs[k].e = "permute"}

\* the slots written by evs after the last permutation of evs: elements no
\* permutation has consumed yet
PendingSlots(evs) ==
    {evs[k].idx : k \in {m \in 1 .. Len(evs) :
                            /\ evs[m].e = "write"
                            /\ \A q \in PermutesIn(evs) : q < m}}

C12_HashReference ==
    (/\ last.op = "hash"
     /\ Len(round_keys) >= NumKeysNeeded) =>
        last.out = <<PoseidonPermute(<<DomainTag % P>> \o last.x, 0, round_keys).state[2]>>

\* whether every count of the pattern is small: no count and no sum of counts
\* comes near 2^31
SmallCounts(ops) == \A k \in 1 .. Len(ops) : ops[k].hi = 0 /\ ops[k].n <= MaxCount

\* the words of the maximal runs of same-direction operations: one word per
\* run, the run's direction bit and the sum of the run's counts
RECURSIVE RunWords(_, _)
RunWords(acc, ops) ==
    IF ops = <<>>
    THEN acc
    ELSE LET bit == IF Head(ops).op = "Absorb" THEN 1 ELSE 0
             i == Len(acc)
         IN  IF i > 0 /\ acc[i].hi = bit
             THEN RunWords([acc EXCEPT ![i].lo = @ + Head(ops).n], Tail(ops))
             ELSE RunWords(Append(acc, [hi |-> bit, lo |-> Head(ops).n]), Tail(ops))

\* the pattern with every run merged into one operation
MergedPattern(ops) ==
    LET ws == RunWords(<<>>, ops)
    IN  SomePattern([k \in 1 .. Len(ws) |->
                        IF ws[k].hi = 1 THEN Absorb_(ws[k].lo) ELSE Squeeze_(ws[k].lo)])

\* C13: the aggregated words of a pattern are the words of its maximal runs:
\* no two adjacent words have the same direction bit, each word carries its
\* run's direction bit and the sum of the run's counts, also when the run
\* holds a zero count; so the pattern and the pattern with its runs merged
\* give the same bytes to hash, hence the same tag
C13_TagAggregation ==
    (/\ last.op = "compute_tag"
     /\ SmallCounts(io_pattern.ops)) =>
        /\ last.res = "tag"
        /\ \A k \in 1 .. Len(last.out) - 1 : last.out[k].hi # last.out[k + 1].hi
        /\ last.out = RunWords(<<>>, io_pattern.ops)
        /\ last.bytes =
               Serialize(Aggregate(EncodeWords(MergedPattern(io_pattern.ops)))) \o seps[1]
        /\ sponge.state[1] = compute_tag(seps[1], MergedPattern(io_pattern.ops))

\* the direction bits of the words ws, a repeated bit taken once
RECURSIVE RunBits(_, _)
RunBits(acc, ws) ==
    IF ws = <<>>
    THEN acc
    ELSE IF Len(acc) > 0 /\ acc[Len(acc)] = Head(ws).hi
         THEN RunBits(acc, Tail(ws))
         ELSE RunBits(Append(acc, Head(ws).hi), Tail(ws))

\* C17: for every count, also from 2^31 on, the encoded word of an operation
\* has its high bit set exactly when the operation is an absorb; no sum of the
\* aggregation leaves 32 bits (nothing aborts, nothing wraps) and the
\* aggregated words keep the direction bits of the pattern's runs
C17_DirectionBitKept ==
    last.op = "compute_tag" =>
        /\ \A k \in 1 .. Len(io_pattern.ops) :
               last.x[k].hi = 1 <=> io_pattern.ops[k].op = "Absorb"
        /\ last.res = "tag"
        /\ RunBits(<<>>, last.out) = RunBits(<<>>, RunWords(<<>>, io_pattern.ops))

\* C14: after every permutation call that ran to its end, from absorb, from
\* squeeze or from hash, the round-key cursor pos is 0, and every permutation
\* call starts reading round keys at index 0
C14_CursorReset ==
    /\ (PermuteEvents # {} /\ ~sponge.panicked) => sponge.pos = 0
    /\ \A ev \in PermuteEvents : ev.rounds[1].pos = 0

\* C15: in every reachable sponge state absorb_pos and squeeze_pos are in
\* 0 .. rate, with rate + capacity the state width; every state write of
\* absorb happens at absorb_pos < rate and every state read of squeeze at
\* squeeze_pos < rate (the code indexes the state with the cursor itself), so
\* no call indexes the state outside its elements
C15_CursorRange ==
    /\ sponge.absorb_pos \in 0 .. rate
    /\ sponge.squeeze_pos \in 0 .. rate
    /\ rate + capacity = Len(sponge.state)
    /\ Len(sponge.state) = StateWidth
    /\ \A k \in EventsOf("write") \cup EventsOf("read") :
           /\ last.events[k].idx \in 0 .. rate - 1
           /\ last.events[k].idx < Len(sponge.state)
    /\ last.op \in {"absorb", "squeeze"} => ~sponge.panicked

\* an absorb that starts in the middle of a block, refills and ends with
\* absorb_pos = rate
C15_Witness ==
    /\ last.op = "absorb"
    /\ last.pre.absorb_pos = 1
    /\ PermuteEvents # {}
    /\ sponge.absorb_pos = rate
    /\ sponge.squeeze_pos = rate

\* the kinds of the rounds of one permute call, as claimed
ClaimedKinds ==
    [r \in 1 .. NUM_FULL_ROUNDS + NUM_PARTIAL_ROUNDS |->
        IF r <= NUM_FULL_ROUNDS \div 2 \/ r > NUM_FULL_ROUNDS \div 2 + NUM_PARTIAL_ROUNDS
        THEN "full" ELSE "partial"]

\* the product of the MDS matrix and the state st, written out
MdsTimes(st) ==
    [i \in 1 .. StateWidth |->
        (MDS_MATRIX[i][1] * st[1] + MDS_MATRIX[i][2] * st[2] + MDS_MATRIX[i][3] * st[3]) % P]

\* the state st with the keys at the 0-based indices ks added
KeysAdded(st, ks) == [i \in 1 .. StateWidth |-> (st[i] + round_keys[ks[i] + 1]) % P]

\* x to the power 5 in the field, written out
Fifth(x) == (x * x * x * x * x) % P

\* C16: one permute call runs full_rounds / 2 full rounds, then the partial
\* rounds, then full_rounds / 2 full rounds; a round adds the round keys, then
\* applies the S-box (a full round to all 3 elements, a partial round to
\* element 0 only, elements 1..2 unchanged), then multiplies by the MDS matrix
\* and then advances the cursor by the state width
C16_PhaseOrder ==
    \A k \in EventsOf("permute") :
        LET rs == last.events[k].rounds
        IN  /\ [r \in 1 .. Len(rs) |-> rs[r].kind] = ClaimedKinds
            /\ \A r \in 1 .. Len(rs) :
                   /\ rs[r].done
                   /\ rs[r].sboxed[1] = Fifth(rs[r].added[1])
                   /\ \A i \in 2 .. StateWidth :
                          rs[r].sboxed[i] = IF rs[r].kind = "full"
                                            THEN Fifth(rs[r].added[i])
                                            ELSE rs[r].added[i]
                   /\ r > 1 =>
                          /\ rs[r].added = KeysAdded(MdsTimes(rs[r - 1].sboxed), rs[r].keys)
                          /\ rs[r].pos = rs[r - 1].pos + StateWidth
            /\ k = 1 => rs[1].added = KeysAdded(last.pre.state, rs[1].keys)
            /\ (k = Len(last.events) \/ last.op = "squeeze") =>
                   \E j \in EventsOf("permute") :
                       /\ \A q \in EventsOf("permute") : q <= j
                       /\ sponge.state = MdsTimes(last.events[j].rounds[Len(rs)].sboxed)

\* a squeeze whose permutation has a partial round that leaves an element
\* unchanged which the S-box would change
C16_Witness ==
    /\ last.op = "squeeze"
    /\ \E k \in EventsOf("permute") :
           \E r \in 1 .. Len(last.events[k].rounds) :
               /\ last.events[k].rounds[r].kind = "partial"
               /\ Fifth(last.events[k].rounds[r].added[2]) # last.events[k].rounds[r].added[2]
               /\ last.events[k].rounds[r].sboxed[2] = last.events[k].rounds[r].added[2]

\* the number of permutations run by the calls cs made on the sponge sp (the
\* cursors do not depend on the values absorbed)
RECURSIVE PermutationsBy(_, _)
PermutationsBy(sp, cs) ==
    IF cs = <<>>
    THEN 0
    ELSE LET r == IF Head(cs)[1] = "absorb"
                  THEN absorb(sp, round_keys, [i \in 1 .. Head(cs)[2] |-> 1])
                  ELSE squeeze(sp, round_keys, Head(cs)[2])
         IN  Cardinality(PermutesIn(r.events)) + PermutationsBy(r.sp, Tail(cs))

\* C18: every element squeeze returns is read from a state that went through
\* at least one permutation since construction: a permutation of this call
\* before the read, or one of an earlier call; a squeeze on a freshly
\* constructed sponge does not return the initial state (the tag, the zeros)
C18_SqueezeReadsPermutedState ==
    last.op = "squeeze" =>
        \A k \in EventsOf("read") :
            \/ \E j \in EventsOf("permute") : j < k
            \/ PermutationsBy(construct(seps[1], io_pattern),
                              SubSeq(calls, 1, Len(calls) - 1)) > 0

\* the sponge sp with io_count one less
OneCallLess(sp) == [sp EXCEPT !.io_count = @ - 1]

\* C19: from any reachable state, absorb(x) then absorb(y), x and y not
\* empty, leaves the state, absorb_pos and squeeze_pos that absorb(x ++ y)
\* leaves, and squeeze(a) then squeeze(b), a, b > 0, returns the elements of
\* squeeze(a + b) in the same order and leaves the same sponge; io_count alone
\* differs, by one
C19_SplitEquivalence ==
    /\ (last.op = "absorb" /\ ~sponge.panicked) =>
           \A m \in 1 .. Len(last.x) - 1 :
               \A first \in {absorb(last.pre, round_keys, SubSeq(last.x, 1, m))} :
                   \A second \in {absorb(first.sp, round_keys,
                                         SubSeq(last.x, m + 1, Len(last.x)))} :
                       /\ ~second.sp.panicked
                       /\ OneCallLess(second.sp) = sponge
                       /\ first.events \o second.events = last.events
    /\ (last.op = "squeeze" /\ ~sponge.panicked) =>
           \A a \in 1 .. last.n - 1 :
               \A first \in {squeeze(last.pre, round_keys, a)} :
                   \A second \in {squeeze(first.sp, round_keys, last.n - a)} :
                       /\ ~second.sp.panicked
                       /\ first.out \o second.out = last.out
                       /\ OneCallLess(second.sp) = sponge

\* an absorb of three elements from the middle of a block, then a squeeze of
\* three elements: both cross a permutation, whatever the split
C19_Witness ==
    /\ Len(calls) = 3
    /\ calls[1] = <<"absorb", 1>>
    /\ calls[2] = <<"absorb", 3>>
    /\ last.op = "squeeze"
    /\ last.n = 3
    /\ Cardinality(EventsOf("permute")) = 2

\* the state a permutation started from: its first round's state after key
\* addition, the keys subtracted
StateBefore(ev) ==
    [i \in 1 .. StateWidth |->
        (ev.rounds[1].added[i] + P - round_keys[ev.rounds[1].keys[i] + 1]) % P]

\* whether no permutation of the last call lies strictly between events j and k
NoPermuteBetween(j, k) == \A q \in EventsOf("permute") : q <= j \/ q >= k

\* C20: no absorbed element is lost.  The elements absorbed since the last
\* permutation are the slots 0 .. absorb_pos - 1: each permutation of a call
\* starts from a state that still holds, in the slot it was written to, every
\* element written since the permutation before (in this call or pending from
\* earlier calls), no pending slot is written twice, what is pending at the
\* end of the call is in the state, and absorb_pos goes back to 0 only with a
\* permutation
C20_NoAbsorbedElementLost ==
    (last.op \in {"absorb", "squeeze"} /\ ~sponge.panicked) =>
        /\ \A k \in EventsOf("permute") :
               /\ \A w \in EventsOf("write") :
                      (w < k /\ NoPermuteBetween(w, k)) =>
                          StateBefore(last.events[k])[last.events[w].idx + 1]
                              = last.events[w].val
               /\ NoPermuteBetween(0, k) =>
                      \A i \in 1 .. last.pre.absorb_pos :
                          StateBefore(last.events[k])[i] = last.pre.state[i]
        /\ \A w \in EventsOf("write") :
               /\ NoPermuteBetween(w, Len(last.events) + 1) =>
                      sponge.state[last.events[w].idx + 1] = last.events[w].val
               /\ NoPermuteBetween(0, w) => last.events[w].idx >= last.pre.absorb_pos
               /\ \A v \in EventsOf("write") :
                      (v < w /\ NoPermuteBetween(v, w)) =>
                          last.events[v].idx # last.events[w].idx
        /\ EventsOf("permute") = {} =>
               /\ \A i \in 1 .. last.pre.absorb_pos : sponge.state[i] = last.pre.state[i]
               /\ sponge.absorb_pos = last.pre.absorb_pos + Cardinality(EventsOf("write"))
        /\ EventsOf("permute") # {} =>
               sponge.absorb_pos =
                   Cardinality({w \in EventsOf("write") :
                                    NoPermuteBetween(w, Len(last.events) + 1)})

\* an element absorbed by one call, a second absorb that fills the block and
\* a third call that permutes both
C20_Witness ==
    /\ Len(calls) = 3
    /\ calls[1] = <<"absorb", 1>>
    /\ calls[2] = <<"absorb", 1>>
    /\ last.pre.absorb_pos = rate
    /\ last.op = "absorb"
    /\ Len(last.x) > 0
    /\ last.events[1].e = "permute"
    /\ StateBefore(last.events[1])[1] = 1
    /\ StateBefore(last.events[1])[2] = 2

====
